---- MODULE Spec2Model ----
(***************************************************************************)
(* COCODataset (maskrcnn_benchmark/data/datasets/coco.py): the validity    *)
(* filter has_valid_annotation, the construction of the dataset (sorted    *)
(* and filtered image ids, category tables, positional table) and the      *)
(* per-index retrieval __getitem__, one step per statement, together with  *)
(* get_img_info.                                                           *)
(*                                                                         *)
(* Python values: a list is a sequence (index i of Python is i + 1 here),  *)
(* a dict is a function, an annotation is a record; the optional key       *)
(* "keypoints" of an annotation is the pair haskp / keypoints.  A raised   *)
(* exception ends the call and is recorded in ret.                         *)
(***************************************************************************)
EXTENDS Integers, Sequences, FiniteSets, TLC

VARIABLES
    coco,          \* the annotation catalog (self.coco): imgIds, imgs, anns, catIds
    remove_images_without_annotations,   \* constructor argument
    transforms,    \* constructor argument: "None" or the name of a transform
    ids,           \* self.ids
    json_category_id_to_contiguous_id,   \* self.json_category_id_to_contiguous_id
    contiguous_category_id_to_json_id,   \* self.contiguous_category_id_to_json_id
    id_to_img_map, \* self.id_to_img_map
    pc,            \* "new", "ready", "init_failed", or the line __getitem__ is at
    idx,           \* __getitem__'s argument
    img,           \* __getitem__'s local img
    anno,          \* __getitem__'s local anno
    target,        \* __getitem__'s local target
    ret,           \* what the last finished call returned or raised
    filterEvals,   \* history: number of evaluations of has_valid_annotation
    transformCalls,\* history: invocations of self.transforms in the current call
    transformInput \* history: the target handed to self.transforms

vars == <<coco, remove_images_without_annotations, transforms, ids,
          json_category_id_to_contiguous_id, contiguous_category_id_to_json_id,
          id_to_img_map, pc, idx, img, anno, target, ret, filterEvals,
          transformCalls, transformInput>>

(***************************************************************************)
(* Bounds of the model.                                                    *)
(***************************************************************************)
\* images of a catalog, at most
MaxImages == 2
\* annotations of one image, at most
MaxAnns == 3
\* categories of a catalog, at most
MaxCats == 2
\* keypoint triples of one annotation
NumKp == 5

\* min_keypoints_per_image = 10
min_keypoints_per_image == 10

(***************************************************************************)
(* Generic sequence helpers.                                               *)
(***************************************************************************)
Range(s) == {s[i] : i \in DOMAIN s}

SeqsUpTo(S, n) == UNION {[1..k -> S] : k \in 0..n}

InjSeqsUpTo(S, n) ==
    {s \in SeqsUpTo(S, n) : \A i, j \in DOMAIN s : i # j => s[i] # s[j]}

\* the ascending enumeration of a finite set of integers
AscSeq(S) ==
    CHOOSE s \in [1..Cardinality(S) -> S] : \A i, j \in DOMAIN s : i < j => s[i] < s[j]

RECURSIVE SumSeq(_)
SumSeq(s) == IF s = <<>> THEN 0 ELSE Head(s) + SumSeq(Tail(s))

\* the subsequence of s at the positions where keep is TRUE
RECURSIVE Rows(_, _)
Rows(s, keep) ==
    IF s = <<>> THEN <<>>
    ELSE (IF Head(keep) THEN <<Head(s)>> ELSE <<>>) \o Rows(Tail(s), Tail(keep))

\* Python slice s[start::step] (start is Python's 0-based index)
PySlice(s, start, step) ==
    [k \in 1..((Len(s) - start + step - 1) \div step) |-> s[start + 1 + (k - 1) * step]]

\* Python list indexing s[i]: a negative i counts from the end
PyIndexOk(s, i) == -Len(s) <= i /\ i < Len(s)
PyIndex(s, i) == IF i >= 0 THEN s[i + 1] ELSE s[Len(s) + i + 1]

\* Python sorted() on a list of integers (insertion sort)
RECURSIVE Insert(_, _)
Insert(x, s) ==
    IF s = <<>> THEN <<x>>
    ELSE IF x <= Head(s) THEN <<x>> \o s
    ELSE <<Head(s)>> \o Insert(x, Tail(s))

RECURSIVE sorted(_)
sorted(s) == IF s = <<>> THEN <<>> ELSE Insert(Head(s), sorted(Tail(s)))

(***************************************************************************)
(* has_valid_annotation and its helpers (coco.py 13-36).                   *)
(***************************************************************************)
\* variant: every positive entry of the list counts, not every third
VisibleIn_AllValues(ann) ==
    Cardinality({k \in DOMAIN ann.keypoints : ann.keypoints[k] > 0})

\* sum(1 for v in ann["keypoints"][2::3] if v > 0)
VisibleIn(ann) ==
    LET vs == PySlice(ann.keypoints, 2, 3)
    IN  Cardinality({k \in DOMAIN vs : vs[k] > 0})

\* ann["keypoints"] raises KeyError for an annotation without the key
_count_visible_keypoints_raises(an) == \E i \in DOMAIN an : ~an[i].haskp

_count_visible_keypoints(an) == SumSeq([i \in DOMAIN an |-> VisibleIn(an[i])])

\* variant: the slice starts one entry early, at y
_has_only_empty_bbox_from_y(an) ==
    \A i \in DOMAIN an :
        LET wh == PySlice(an[i].bbox, 1, 1) IN \E k \in DOMAIN wh : wh[k] <= 1

\* all(any(o <= 1 for o in obj["bbox"][2:]) for obj in anno)
_has_only_empty_bbox(an) ==
    \A i \in DOMAIN an :
        LET wh == PySlice(an[i].bbox, 2, 1) IN \E k \in DOMAIN wh : wh[k] <= 1

\* the call raises (KeyError) instead of returning
has_valid_annotation_raises(an) ==
    /\ Len(an) # 0
    /\ ~_has_only_empty_bbox(an)
    /\ an[1].haskp
    /\ _count_visible_keypoints_raises(an)

has_valid_annotation(an) ==
    IF Len(an) = 0 THEN FALSE
    ELSE IF _has_only_empty_bbox(an) THEN FALSE
    ELSE IF ~an[1].haskp THEN TRUE
    ELSE IF _count_visible_keypoints(an) >= min_keypoints_per_image THEN TRUE
    ELSE FALSE

(***************************************************************************)
(* The structures of maskrcnn_benchmark.structures that __getitem__ uses:  *)
(* BoxList with its fields, the mode conversion and the clip step.         *)
(***************************************************************************)
NoFields == <<>>

\* BoxList(boxes, image_size, mode)
BoxList(boxes, size, mode) ==
    [bbox |-> boxes, size |-> size, mode |-> mode, extra_fields |-> NoFields]

\* (x, y, w, h) -> (x1, y1, x2, y2): x2 = x + w, y2 = y + h
XywhToXyxy(b) == <<b[1], b[2], b[1] + b[3], b[2] + b[4]>>

\* BoxList.convert(mode)
convert(t, mode) ==
    IF t.mode = mode THEN t
    ELSE [t EXCEPT !.bbox = [i \in DOMAIN t.bbox |-> XywhToXyxy(t.bbox[i])],
                   !.mode = mode]

\* BoxList.add_field(name, data)
add_field(t, name, data) == [t EXCEPT !.extra_fields = (name :> data) @@ @]

fields(t) == DOMAIN t.extra_fields

Clamp(v, lo, hi) == IF v < lo THEN lo ELSE IF v > hi THEN hi ELSE v

\* one box clipped to [0, width] x [0, height]
ClipBox(b, size) ==
    <<Clamp(b[1], 0, size[1]), Clamp(b[2], 0, size[2]),
      Clamp(b[3], 0, size[1]), Clamp(b[4], 0, size[2])>>

BoxArea(b) == (b[3] - b[1]) * (b[4] - b[2])

\* the rows kept by the clip step: the boxes of positive clipped area
KeepMask(t) == [i \in DOMAIN t.bbox |-> BoxArea(ClipBox(t.bbox[i], t.size)) > 0]

\* BoxList.clip_to_image(remove_empty): every box is clipped; with
\* remove_empty the rows of the dropped boxes leave the boxes and every field
clip_to_image(t, remove_empty) ==
    LET clipped == [i \in DOMAIN t.bbox |-> ClipBox(t.bbox[i], t.size)]
        keep == KeepMask(t)
    IN  IF remove_empty
        THEN [t EXCEPT !.bbox = Rows(clipped, keep),
                       !.extra_fields =
                           [f \in DOMAIN t.extra_fields |-> Rows(t.extra_fields[f], keep)]]
        ELSE [t EXCEPT !.bbox = clipped]

\* SegmentationMask(masks, size): the raw representations, one per box
SegmentationMask(masks, size) == masks

\* PersonKeypoints(keypoints, size): one keypoint list per box
PersonKeypoints(keypoints, size) == keypoints

\* the transform collaborator, (image, target) -> (image, target): a
\* horizontal flip of the image and of the boxes
ApplyTransform(name, image, t) ==
    IF name = "hflip"
    THEN [img |-> [image EXCEPT !.flipped = ~@],
          target |-> [t EXCEPT !.bbox =
              [i \in DOMAIN t.bbox |->
                  <<t.size[1] - t.bbox[i][3], t.bbox[i][2],
                    t.size[1] - t.bbox[i][1], t.bbox[i][4]>>]]]
    ELSE [img |-> image, target |-> t]

(***************************************************************************)
(* The collaborators of torchvision's CocoDetection and of the catalog.    *)
(***************************************************************************)
\* self.coco.getAnnIds(imgIds=img_id, iscrowd=None) and loadAnns: every
\* annotation of the image, crowd ones included
loadAnns(c, img_id) == c.anns[img_id]

\* the decoded image of an image record: its size is the record's
loadImage(c, img_id) ==
    [id |-> img_id, size |-> <<c.imgs[img_id].width, c.imgs[img_id].height>>,
     flipped |-> FALSE]

\* self.coco.getCatIds()
getCatIds(c) == c.catIds

NoImg == [id |-> 0, size |-> <<0, 0>>, flipped |-> FALSE]
NoTarget == BoxList(<<>>, <<0, 0>>, "none")
NoInfo == [id |-> 0, width |-> 0, height |-> 0]
NoRet == [call |-> "none", arg |-> 0, kind |-> "none", err |-> "", at |-> "",
          img |-> NoImg, target |-> NoTarget, idx |-> 0, info |-> NoInfo]

Raised(call, arg, err, at) ==
    [NoRet EXCEPT !.call = call, !.arg = arg, !.kind = "err", !.err = err, !.at = at]

(***************************************************************************)
(* COCODataset.__init__ (coco.py 40-64).                                   *)
(***************************************************************************)
\* variant: the annotations are fetched without the crowd ones
FilterIds_NonCrowd(c, sortedIds) ==
    SelectSeq(sortedIds,
              LAMBDA d : has_valid_annotation(
                             SelectSeq(loadAnns(c, d), LAMBDA obj : obj.iscrowd = 0)))

\* lines 48-55: the ids whose annotation list passes has_valid_annotation
FilterIds(c, sortedIds) ==
    SelectSeq(sortedIds, LAMBDA d : has_valid_annotation(loadAnns(c, d)))

\* the filter loop raises at the first image whose annotations make
\* has_valid_annotation raise; 0 when none does
FirstRaising(c, sortedIds) ==
    LET bad == {i \in DOMAIN sortedIds :
                   has_valid_annotation_raises(loadAnns(c, sortedIds[i]))}
    IN  IF bad = {} THEN 0 ELSE CHOOSE i \in bad : \A j \in bad : i <= j

\* variant: the labels start at 0
ForwardTable_ZeroBased(cats) ==
    [v \in Range(cats) |->
        CHOOSE i \in 0..(Len(cats) - 1) :
            /\ cats[i + 1] = v
            /\ \A j \in (i + 1)..(Len(cats) - 1) : cats[j + 1] # v]

\* lines 57-59: {v: i + 1 for i, v in enumerate(getCatIds())}; a later
\* entry of the same key overwrites an earlier one
ForwardTable(cats) ==
    [v \in Range(cats) |->
        LET i == CHOOSE i \in 0..(Len(cats) - 1) :
                     /\ cats[i + 1] = v
                     /\ \A j \in (i + 1)..(Len(cats) - 1) : cats[j + 1] # v
        IN  i + 1]

\* lines 60-62: {v: k for k, v in forward.items()}
InverseTable(fwd) ==
    [l \in Range(fwd) |-> CHOOSE k \in DOMAIN fwd : fwd[k] = l]

\* variant: the positions start at 1
PositionalTable_FromOne(idList) == [k \in 1..Len(idList) |-> idList[k]]

\* line 63: {k: v for k, v in enumerate(self.ids)}
PositionalTable(idList) == [k \in 0..(Len(idList) - 1) |-> idList[k + 1]]

Construct ==
    /\ pc = "new"
    /\ LET sortedIds == sorted(coco.imgIds)
           failing == IF remove_images_without_annotations
                      THEN FirstRaising(coco, sortedIds) ELSE 0
           kept == IF remove_images_without_annotations
                   THEN FilterIds(coco, sortedIds) ELSE sortedIds
           fwd == ForwardTable(getCatIds(coco))
       IN  IF failing # 0
           THEN /\ pc' = "init_failed"
                /\ ids' = sortedIds
                /\ filterEvals' = failing
                /\ ret' = Raised("init", 0, "KeyError", "L14")
                /\ UNCHANGED <<json_category_id_to_contiguous_id,
                               contiguous_category_id_to_json_id, id_to_img_map>>
           ELSE /\ pc' = "ready"
                /\ ids' = kept
                /\ filterEvals' = IF remove_images_without_annotations
                                  THEN Len(sortedIds) ELSE 0
                /\ json_category_id_to_contiguous_id' = fwd
                /\ contiguous_category_id_to_json_id' = InverseTable(fwd)
                /\ id_to_img_map' = PositionalTable(kept)
                /\ ret' = NoRet
    /\ UNCHANGED <<coco, remove_images_without_annotations, transforms, idx, img,
                   anno, target, transformCalls, transformInput>>

(***************************************************************************)
(* COCODataset.__getitem__ (coco.py 66-117), one action per statement.     *)
(***************************************************************************)
\* the indices a caller may pass
IdxRange == (-(MaxImages + 1))..(MaxImages + 1)

\* variant: no annotation is dropped
CrowdFilter_KeepsAll(an) == an

\* line 89: [obj for obj in anno if obj["iscrowd"] == 0]
CrowdFilter(an) == SelectSeq(an, LAMBDA obj : obj.iscrowd = 0)

\* line 91: [obj["bbox"] for obj in anno]
Boxes(an) == [i \in DOMAIN an |-> an[i].bbox]

\* line 97 raises KeyError for a category_id that is no key of the table
ClassesRaises(an, fwd) == \E i \in DOMAIN an : an[i].category_id \notin DOMAIN fwd

\* variant: one label per distinct category of the list
Classes_Distinct(an, fwd) ==
    LET first == AscSeq({i \in DOMAIN an :
                            \A j \in 1..(i - 1) : an[j].category_id # an[i].category_id})
    IN  [k \in DOMAIN first |-> fwd[an[first[k]].category_id]]

\* lines 96-98: the dense label of every annotation
Classes(an, fwd) == [i \in DOMAIN an |-> fwd[an[i].category_id]]

\* line 102: [obj["segmentation"] for obj in anno]
Masks(an) == [i \in DOMAIN an |-> an[i].segmentation]

\* variant: any annotation with keypoints asks for the field
WantsKeypoints_Any(an) == \E i \in DOMAIN an : an[i].haskp

\* line 107: anno and "keypoints" in anno[0]
WantsKeypoints(an) == an # <<>> /\ an[1].haskp

\* line 108 raises KeyError for an annotation without the key
KeypointsRaises(an) == \E i \in DOMAIN an : ~an[i].haskp

\* line 108: [obj["keypoints"] for obj in anno]
Keypoints(an) == [i \in DOMAIN an |-> an[i].keypoints]

\* a raised exception ends the call
Raise(err, at) ==
    /\ ret' = Raised("getitem", idx, err, at)
    /\ pc' = "ready"
    /\ idx' = 0
    /\ img' = NoImg
    /\ anno' = <<>>
    /\ target' = NoTarget

Static == <<coco, remove_images_without_annotations, transforms, ids,
            json_category_id_to_contiguous_id, contiguous_category_id_to_json_id,
            id_to_img_map, filterEvals>>

\* line 67: super().__getitem__(idx): img_id = self.ids[index], then the
\* image and the annotations of img_id
GetItem_L67(i) ==
    /\ pc = "ready"
    /\ transformCalls' = 0
    /\ transformInput' = NoTarget
    /\ IF ~PyIndexOk(ids, i)
       THEN /\ ret' = Raised("getitem", i, "IndexError", "L67")
            /\ UNCHANGED <<pc, idx, img, anno, target>>
       ELSE /\ idx' = i
            /\ img' = loadImage(coco, PyIndex(ids, i))
            /\ anno' = loadAnns(coco, PyIndex(ids, i))
            /\ pc' = "L89"
            /\ ret' = NoRet
            /\ UNCHANGED target
    /\ UNCHANGED Static

GetItem_L89 ==
    /\ pc = "L89"
    /\ anno' = CrowdFilter(anno)
    /\ pc' = "L91"
    /\ UNCHANGED <<Static, idx, img, target, ret, transformCalls, transformInput>>

\* lines 91-93
GetItem_L91 ==
    /\ pc = "L91"
    /\ target' = convert(BoxList(Boxes(anno), img.size, "xywh"), "xyxy")
    /\ pc' = "L96"
    /\ UNCHANGED <<Static, idx, img, anno, ret, transformCalls, transformInput>>

\* lines 96-99
GetItem_L96 ==
    /\ pc = "L96"
    /\ IF ClassesRaises(anno, json_category_id_to_contiguous_id)
       THEN Raise("KeyError", "L97")
       ELSE /\ target' = add_field(target, "labels",
                                   Classes(anno, json_category_id_to_contiguous_id))
            /\ pc' = "L102"
            /\ UNCHANGED <<idx, img, anno, ret>>
    /\ UNCHANGED <<Static, transformCalls, transformInput>>

\* lines 102-104
GetItem_L102 ==
    /\ pc = "L102"
    /\ target' = add_field(target, "masks", SegmentationMask(Masks(anno), img.size))
    /\ pc' = "L107"
    /\ UNCHANGED <<Static, idx, img, anno, ret, transformCalls, transformInput>>

\* lines 107-110
GetItem_L107 ==
    /\ pc = "L107"
    /\ IF WantsKeypoints(anno)
       THEN IF KeypointsRaises(anno)
            THEN Raise("KeyError", "L108")
            ELSE /\ target' = add_field(target, "keypoints",
                                        PersonKeypoints(Keypoints(anno), img.size))
                 /\ pc' = "L112"
                 /\ UNCHANGED <<idx, img, anno, ret>>
       ELSE /\ pc' = "L112"
            /\ UNCHANGED <<idx, img, anno, target, ret>>
    /\ UNCHANGED <<Static, transformCalls, transformInput>>

\* line 112
GetItem_L112 ==
    /\ pc = "L112"
    /\ target' = clip_to_image(target, TRUE)
    /\ pc' = "L114"
    /\ UNCHANGED <<Static, idx, img, anno, ret, transformCalls, transformInput>>

\* variant: a Target without rows is not transformed
GetItem_L114_SkipsEmpty ==
    /\ pc = "L114"
    /\ IF transforms # "None" /\ target.bbox # <<>>
       THEN /\ img' = ApplyTransform(transforms, img, target).img
            /\ target' = ApplyTransform(transforms, img, target).target
            /\ transformCalls' = transformCalls + 1
            /\ transformInput' = target
       ELSE UNCHANGED <<img, target, transformCalls, transformInput>>
    /\ pc' = "L117"
    /\ UNCHANGED <<Static, idx, anno, ret>>

\* lines 114-115
GetItem_L114 ==
    /\ pc = "L114"
    /\ IF transforms # "None"
       THEN /\ img' = ApplyTransform(transforms, img, target).img
            /\ target' = ApplyTransform(transforms, img, target).target
            /\ transformCalls' = transformCalls + 1
            /\ transformInput' = target
       ELSE UNCHANGED <<img, target, transformCalls, transformInput>>
    /\ pc' = "L117"
    /\ UNCHANGED <<Static, idx, anno, ret>>

\* line 117: return img, target, idx
GetItem_L117 ==
    /\ pc = "L117"
    /\ ret' = [NoRet EXCEPT !.call = "getitem", !.arg = idx, !.kind = "ok",
                            !.img = img, !.target = target, !.idx = idx]
    /\ pc' = "ready"
    /\ idx' = 0
    /\ img' = NoImg
    /\ anno' = <<>>
    /\ target' = NoTarget
    /\ UNCHANGED <<Static, transformCalls, transformInput>>

(***************************************************************************)
(* COCODataset.get_img_info (coco.py 119-122).                             *)
(***************************************************************************)
get_img_info(i) ==
    /\ pc = "ready"
    /\ ret' = IF i \notin DOMAIN id_to_img_map
              THEN Raised("get_img_info", i, "KeyError", "L120")
              ELSE [NoRet EXCEPT !.call = "get_img_info", !.arg = i, !.kind = "ok",
                                 !.info = coco.imgs[id_to_img_map[i]]]
    /\ UNCHANGED <<Static, pc, idx, img, anno, target, transformCalls, transformInput>>

Next ==
    \/ Construct
    \/ \E i \in IdxRange : GetItem_L67(i)
    \/ GetItem_L89
    \/ GetItem_L91
    \/ GetItem_L96
    \/ GetItem_L102
    \/ GetItem_L107
    \/ GetItem_L112
    \/ GetItem_L114
    \/ GetItem_L117
    \/ \E i \in IdxRange : get_img_info(i)

(***************************************************************************)
(* Catalogs.                                                               *)
(***************************************************************************)
\* sparse catalog image ids and category ids
ImgIdPool == {3 * k : k \in 1..MaxImages}
CatIdPool == {4 * k + 1 : k \in 1..(MaxCats + 1)}

\* the categories every catalog but those of the remap study enumerates
DefaultCats == [k \in 1..MaxCats |-> 4 * k + 1]
UnknownCat == 4 * (MaxCats + 1) + 1

\* NumKp triples (x, y, visibility), the first m of them visible
MkKeypoints(m) ==
    [k \in 1..(3 * NumKp) |->
        LET j == ((k - 1) \div 3) + 1
            r == (k - 1) % 3
        IN  IF j > m THEN 0
            ELSE IF r = 2 THEN 1 + (j % 2)
            ELSE j + r]

\* an annotation kind: everything of an annotation but its id and mask
Kind(bbox, cat, crowd, haskp, m) ==
    [bbox |-> bbox, category_id |-> cat, iscrowd |-> crowd, haskp |-> haskp,
     keypoints |-> IF haskp THEN MkKeypoints(m) ELSE <<>>]

\* the annotation list of an image from a sequence of kinds
MkAnno(kinds) ==
    [i \in DOMAIN kinds |->
        [id |-> i, segmentation |-> <<i, i + 1>>,
         bbox |-> kinds[i].bbox, category_id |-> kinds[i].category_id,
         iscrowd |-> kinds[i].iscrowd, haskp |-> kinds[i].haskp,
         keypoints |-> kinds[i].keypoints]]

\* a catalog: imgIds in the catalog's own order
Catalog(imgIds, sizes, annos, cats) ==
    [imgIds |-> imgIds,
     imgs |-> [d \in Range(imgIds) |->
                  [id |-> d, width |-> sizes[d][1], height |-> sizes[d][2]]],
     anns |-> annos,
     catIds |-> cats]

InitRest ==
    /\ ids = <<>>
    /\ json_category_id_to_contiguous_id = <<>>
    /\ contiguous_category_id_to_json_id = <<>>
    /\ id_to_img_map = <<>>
    /\ pc = "new"
    /\ idx = 0
    /\ img = NoImg
    /\ anno = <<>>
    /\ target = NoTarget
    /\ ret = NoRet
    /\ filterEvals = 0
    /\ transformCalls = 0
    /\ transformInput = NoTarget

(***************************************************************************)
(* Spec: the dataset over catalogs of up to MaxImages images in any        *)
(* catalog order, with and without filtering.                              *)
(***************************************************************************)
SizeOf(d) == <<4 + (d % 2), 4>>

FacadeLists ==
    { MkAnno(<<>>),
      \* one usable box
      MkAnno(<<Kind(<<1, 1, 2, 2>>, DefaultCats[1], 0, FALSE, 0)>>),
      \* a crowd region only
      MkAnno(<<Kind(<<0, 0, 3, 3>>, DefaultCats[MaxCats], 1, FALSE, 0)>>),
      \* a box of width 1 only
      MkAnno(<<Kind(<<1, 1, 1, 3>>, DefaultCats[1], 0, FALSE, 0)>>) }

Init ==
    /\ \E order \in InjSeqsUpTo(ImgIdPool, MaxImages) :
         \E annos \in [Range(order) -> FacadeLists] :
            coco = Catalog(order, [d \in Range(order) |-> SizeOf(d)], annos, DefaultCats)
    /\ remove_images_without_annotations \in BOOLEAN
    /\ transforms \in {"None", "hflip"}
    /\ InitRest

Spec == Init /\ [][Next]_vars

(***************************************************************************)
(* SpecTarget: one image, every annotation list of up to MaxAnns           *)
(* annotations of the kinds below, no filtering.                           *)
(***************************************************************************)
OneImage == <<3>>

TargetSizes == {<<4, 4>>, <<6, 3>>}

TargetKinds(size) ==
    { \* inside the image
      Kind(<<1, 1, 2, 2>>, DefaultCats[1], 0, FALSE, 0),
      \* partly outside, with keypoints
      Kind(<<-1, -1, 3, 3>>, DefaultCats[MaxCats], 0, TRUE, NumKp),
      \* wholly outside, with keypoints
      Kind(<<size[1] + 1, size[2] + 1, 2, 2>>, DefaultCats[1], 0, TRUE, 1),
      \* wholly outside
      Kind(<<-5, -5, 2, 2>>, DefaultCats[MaxCats], 0, FALSE, 0),
      \* crowd regions
      Kind(<<0, 0, size[1], size[2]>>, DefaultCats[MaxCats], 1, FALSE, 0),
      Kind(<<1, 0, 2, 2>>, DefaultCats[1], 1, TRUE, NumKp),
      \* a category the catalog does not enumerate
      Kind(<<0, 1, 2, 2>>, UnknownCat, 0, FALSE, 0) }

InitTarget ==
    /\ \E size \in TargetSizes :
         \E kinds \in SeqsUpTo(TargetKinds(size), MaxAnns) :
            coco = Catalog(OneImage, [d \in Range(OneImage) |-> size],
                           [d \in Range(OneImage) |-> MkAnno(kinds)], DefaultCats)
    /\ remove_images_without_annotations = FALSE
    /\ transforms \in {"None", "hflip"}
    /\ InitRest

SpecTarget == InitTarget /\ [][Next]_vars

(***************************************************************************)
(* SpecFilter: one image, filtering requested, annotation lists that vary  *)
(* the box extents and the number of visible keypoints.                    *)
(***************************************************************************)
FilterKinds ==
    { Kind(b, DefaultCats[1], 0, FALSE, 0) :
          b \in {<<1, 1, 2, 2>>, <<1, 1, 1, 3>>, <<0, 0, 3, 1>>, <<0, 0, 1, 1>>} }
    \cup
    { Kind(b, DefaultCats[1], 0, TRUE, m) :
          b \in {<<1, 1, 2, 2>>, <<1, 1, 1, 3>>}, m \in {0, NumKp - 1, NumKp} }

InitFilter ==
    /\ \E kinds \in SeqsUpTo(FilterKinds, MaxAnns) :
          coco = Catalog(OneImage, [d \in Range(OneImage) |-> <<4, 4>>],
                         [d \in Range(OneImage) |-> MkAnno(kinds)], DefaultCats)
    /\ remove_images_without_annotations = TRUE
    /\ transforms = "None"
    /\ InitRest

SpecFilter == InitFilter /\ [][Next]_vars

(***************************************************************************)
(* SpecRemap: one image of up to MaxCats annotations, every enumeration    *)
(* of up to MaxCats distinct category ids.                                 *)
(***************************************************************************)
RemapKinds == {Kind(<<1, 1, 2, 2>>, c, 0, FALSE, 0) : c \in CatIdPool}

InitRemap ==
    /\ \E cats \in InjSeqsUpTo(CatIdPool, MaxCats) :
         \E kinds \in SeqsUpTo(RemapKinds, MaxCats) :
            coco = Catalog(OneImage, [d \in Range(OneImage) |-> <<4, 4>>],
                           [d \in Range(OneImage) |-> MkAnno(kinds)], cats)
    /\ remove_images_without_annotations = FALSE
    /\ transforms = "None"
    /\ InitRest

SpecRemap == InitRemap /\ [][Next]_vars

(***************************************************************************)
(* What the properties below speak of, stated on the catalog itself.       *)
(***************************************************************************)
Max2(a, b) == IF a > b THEN a ELSE b
Min2(a, b) == IF a < b THEN a ELSE b

\* the box (x, y, w, h) meets the image [0, width] x [0, height] in a
\* region of positive area
KeepsArea(b, size) ==
    /\ Max2(0, b[1]) < Min2(size[1], b[1] + b[3])
    /\ Max2(0, b[2]) < Min2(size[2], b[2] + b[4])

\* positions, in the raw list, of the annotations that are not crowd
NonCrowdIdx(raw) == AscSeq({i \in DOMAIN raw : raw[i].iscrowd = 0})

\* positions of those that are not crowd and keep positive area
SurvivorIdx(raw, size) ==
    AscSeq({i \in DOMAIN raw : raw[i].iscrowd = 0 /\ KeepsArea(raw[i].bbox, size)})

\* the box of a raw annotation as corners, cut to the image
CutBox(b, size) ==
    <<Max2(0, Min2(size[1], b[1])), Max2(0, Min2(size[2], b[2])),
      Max2(0, Min2(size[1], b[1] + b[3])), Max2(0, Min2(size[2], b[2] + b[4]))>>

\* the target t has one row per position of sel, each field's entry i taken
\* from annotation sel[i] of raw
FieldsAligned(t, raw, sel) ==
    /\ \A f \in fields(t) : Len(t.extra_fields[f]) = Len(sel)
    /\ "labels" \in fields(t) =>
          \A i \in DOMAIN sel :
              /\ raw[sel[i]].category_id \in DOMAIN json_category_id_to_contiguous_id
              /\ t.extra_fields["labels"][i] =
                     json_category_id_to_contiguous_id[raw[sel[i]].category_id]
    /\ "masks" \in fields(t) =>
          \A i \in DOMAIN sel : t.extra_fields["masks"][i] = raw[sel[i]].segmentation
    /\ "keypoints" \in fields(t) =>
          \A i \in DOMAIN sel :
              raw[sel[i]].haskp /\ t.extra_fields["keypoints"][i] = raw[sel[i]].keypoints

\* the call in progress has built its target up to the clip step
BeforeClip == pc \in {"L96", "L102", "L107", "L112"}
\* the call in progress has clipped its target and not yet transformed it
AfterClip == pc = "L114"

\* the last call was a get_item that returned
Returned == ret.call = "getitem" /\ ret.kind = "ok"

\* the fields the target must carry at each line
FieldsDue ==
    CASE pc = "L96" -> {}
      [] pc = "L102" -> {"labels"}
      [] pc = "L107" -> {"labels", "masks"}
      [] OTHER -> {"labels", "masks"}

(***************************************************************************)
(* C1. Whenever get_item holds or returns a Target, every attached field   *)
(* has exactly as many entries as the Target has boxes, and entry i of     *)
(* each field and box i come from the same annotation: before the clip     *)
(* step from the i-th annotation that is not crowd, after it and on        *)
(* return from the i-th that is not crowd and keeps positive area.         *)
(***************************************************************************)
C1_FieldsAligned ==
    /\ BeforeClip =>
          LET raw == loadAnns(coco, img.id)
              sel == NonCrowdIdx(raw)
          IN  /\ Len(target.bbox) = Len(sel)
              /\ FieldsDue \subseteq fields(target)
              /\ FieldsAligned(target, raw, sel)
              /\ \A i \in DOMAIN sel :
                    target.bbox[i] = <<raw[sel[i]].bbox[1], raw[sel[i]].bbox[2],
                                       raw[sel[i]].bbox[1] + raw[sel[i]].bbox[3],
                                       raw[sel[i]].bbox[2] + raw[sel[i]].bbox[4]>>
    /\ AfterClip =>
          LET raw == loadAnns(coco, img.id)
              sel == SurvivorIdx(raw, img.size)
          IN  /\ Len(target.bbox) = Len(sel)
              /\ {"labels", "masks"} \subseteq fields(target)
              /\ FieldsAligned(target, raw, sel)
              /\ \A i \in DOMAIN sel : target.bbox[i] = CutBox(raw[sel[i]].bbox, img.size)
    /\ Returned =>
          LET raw == loadAnns(coco, ret.img.id)
              sel == SurvivorIdx(raw, ret.img.size)
          IN  /\ Len(ret.target.bbox) = Len(sel)
              /\ {"labels", "masks"} \subseteq fields(ret.target)
              /\ FieldsAligned(ret.target, raw, sel)
              /\ transforms = "None" =>
                    \A i \in DOMAIN sel :
                        ret.target.bbox[i] = CutBox(raw[sel[i]].bbox, ret.img.size)

\* a returned Target with keypoints that lost a row to the crowd filter and
\* another to the clip step, and kept one
C1_Witness ==
    /\ Returned
    /\ "keypoints" \in fields(ret.target)
    /\ Len(ret.target.bbox) >= 1
    /\ LET raw == loadAnns(coco, ret.img.id)
       IN  /\ Len(NonCrowdIdx(raw)) < Len(raw)
           /\ Len(ret.target.bbox) < Len(NonCrowdIdx(raw))

(***************************************************************************)
(* C8 as stated. The Target built by get_item has N equal to the number    *)
(* of annotations that are not crowd and keep positive area when clipped;  *)
(* every list of 3 annotations of which one is crowd yields N = 2; a list  *)
(* in which no annotation survives yields a zero-row Target with empty     *)
(* labels and masks, never a failure.                                      *)
(***************************************************************************)
CrowdCount(raw) == Cardinality({i \in DOMAIN raw : raw[i].iscrowd # 0})

\* the last call was a get_item that found its image and then raised
FailedInside == ret.call = "getitem" /\ ret.kind = "err" /\ ret.at # "L67"

RowsAsCounted ==
    /\ AfterClip =>
          Len(target.bbox) = Len(SurvivorIdx(loadAnns(coco, img.id), img.size))
    /\ Returned =>
          Len(ret.target.bbox) =
              Len(SurvivorIdx(loadAnns(coco, ret.img.id), ret.img.size))

ZeroRowsWhenReturned ==
    Returned /\ SurvivorIdx(loadAnns(coco, ret.img.id), ret.img.size) = <<>> =>
        /\ ret.target.bbox = <<>>
        /\ {"labels", "masks"} \subseteq fields(ret.target)
        /\ ret.target.extra_fields["labels"] = <<>>
        /\ ret.target.extra_fields["masks"] = <<>>

C8_AsStated ==
    /\ RowsAsCounted
    /\ Returned =>
          LET raw == loadAnns(coco, ret.img.id)
          IN  Len(raw) = 3 /\ CrowdCount(raw) = 1 => Len(ret.target.bbox) = 2
    /\ ZeroRowsWhenReturned
    /\ FailedInside =>
          LET d == PyIndex(ids, ret.arg)
          IN  SurvivorIdx(loadAnns(coco, d), loadImage(coco, d).size) # <<>>

(***************************************************************************)
(* C8 as amended. Whenever get_item builds a Target, its N is the number   *)
(* of annotations that are not crowd and keep positive area when clipped;  *)
(* a list of 3 annotations of which one is crowd yields N = 2 when the two *)
(* others keep positive area; a list in which no annotation survives       *)
(* yields a zero-row Target with empty labels and masks unless the call    *)
(* raises KeyError, which it does only for a non-crowd annotation whose    *)
(* category id is not in the table (line 97) or, the first non-crowd       *)
(* annotation having keypoints, for a non-crowd one that has none (108).   *)
(***************************************************************************)
C8_TargetRows ==
    /\ RowsAsCounted
    /\ Returned =>
          LET raw == loadAnns(coco, ret.img.id)
              sel == NonCrowdIdx(raw)
          IN  /\ Len(raw) = 3
              /\ CrowdCount(raw) = 1
              /\ \A i \in DOMAIN sel : KeepsArea(raw[sel[i]].bbox, ret.img.size)
              => Len(ret.target.bbox) = 2
    /\ ZeroRowsWhenReturned
    /\ FailedInside =>
          LET raw == loadAnns(coco, PyIndex(ids, ret.arg))
              sel == NonCrowdIdx(raw)
          IN  \/ /\ ret.at = "L97"
                 /\ \E i \in DOMAIN sel :
                       raw[sel[i]].category_id \notin Range(getCatIds(coco))
              \/ /\ ret.at = "L108"
                 /\ raw[sel[1]].haskp
                 /\ \E i \in DOMAIN sel : ~raw[sel[i]].haskp

\* three annotations, one of them crowd, the two others kept: N = 2
C8_Witness ==
    /\ Returned
    /\ Len(loadAnns(coco, ret.img.id)) = 3
    /\ CrowdCount(loadAnns(coco, ret.img.id)) = 1
    /\ Len(ret.target.bbox) = 2

\* annotations were there, none survived, and a zero-row Target came back
C8_ZeroRowWitness ==
    /\ Returned
    /\ Len(loadAnns(coco, ret.img.id)) >= 2
    /\ ret.target.bbox = <<>>
    /\ ret.target.extra_fields["labels"] = <<>>

(***************************************************************************)
(* C9. The Target of get_item has a keypoints field exactly when some      *)
(* annotation is not crowd and the first such annotation carries           *)
(* keypoints; when that first one carries none there is no keypoints       *)
(* field, whatever the later annotations carry, and the keypoint step      *)
(* raises nothing.                                                         *)
(***************************************************************************)
FirstSurvivingHasKeypoints(raw) ==
    LET sel == NonCrowdIdx(raw) IN sel # <<>> /\ raw[sel[1]].haskp

C9_KeypointsField ==
    /\ pc \in {"L112", "L114", "L117"} =>
          ("keypoints" \in fields(target)
              <=> FirstSurvivingHasKeypoints(loadAnns(coco, img.id)))
    /\ Returned =>
          ("keypoints" \in fields(ret.target)
              <=> FirstSurvivingHasKeypoints(loadAnns(coco, ret.img.id)))
    /\ FailedInside /\ ret.at = "L108" =>
          FirstSurvivingHasKeypoints(loadAnns(coco, PyIndex(ids, ret.arg)))

\* the raw list starts with a crowd annotation that has keypoints, the
\* first non-crowd one has none, a later non-crowd one has them: the
\* returned Target has no keypoints field
C9_Witness ==
    /\ Returned
    /\ "keypoints" \notin fields(ret.target)
    /\ LET raw == loadAnns(coco, ret.img.id)
       IN  /\ Len(raw) = 3
           /\ raw[1].iscrowd = 1 /\ raw[1].haskp
           /\ raw[2].iscrowd = 0 /\ ~raw[2].haskp
           /\ raw[3].iscrowd = 0 /\ raw[3].haskp

(***************************************************************************)
(* C10. With a transform configured, a get_item call that returns has      *)
(* invoked it exactly once, on the fully built Target (crowd exclusion,    *)
(* labels, masks, keypoints and clipping done), never earlier in the call  *)
(* and never twice, and returns the transform's image and target; without  *)
(* a transform nothing is invoked.                                         *)
(***************************************************************************)
FullyBuilt(t, d) ==
    LET raw == loadAnns(coco, d)
        size == loadImage(coco, d).size
        sel == SurvivorIdx(raw, size)
    IN  /\ Len(t.bbox) = Len(sel)
        /\ \A i \in DOMAIN sel : t.bbox[i] = CutBox(raw[sel[i]].bbox, size)
        /\ {"labels", "masks"} \subseteq fields(t)
        /\ ("keypoints" \in fields(t) <=> FirstSurvivingHasKeypoints(raw))
        /\ FieldsAligned(t, raw, sel)

C10_TransformOnce ==
    /\ transformCalls <= 1
    /\ transforms = "None" => transformCalls = 0
    /\ pc \in {"L89", "L91", "L96", "L102", "L107", "L112", "L114"} => transformCalls = 0
    /\ transforms # "None" /\ pc = "L117" =>
          /\ transformCalls = 1
          /\ FullyBuilt(transformInput, img.id)
          /\ img = ApplyTransform(transforms, loadImage(coco, img.id), transformInput).img
          /\ target =
                 ApplyTransform(transforms, loadImage(coco, img.id), transformInput).target
    /\ transforms # "None" /\ Returned =>
          /\ transformCalls = 1
          /\ FullyBuilt(transformInput, ret.img.id)
          /\ ret.img =
                 ApplyTransform(transforms, loadImage(coco, ret.img.id), transformInput).img
          /\ ret.target =
                 ApplyTransform(transforms, loadImage(coco, ret.img.id), transformInput).target

\* a returned call whose transform got a Target that the crowd filter and
\* the clip step had both shortened
C10_Witness ==
    /\ Returned
    /\ transforms = "hflip"
    /\ transformCalls = 1
    /\ ret.img.flipped
    /\ Len(transformInput.bbox) >= 1
    /\ LET raw == loadAnns(coco, ret.img.id)
       IN  /\ CrowdCount(raw) >= 1
           /\ Len(transformInput.bbox) < Len(raw) - CrowdCount(raw)

(***************************************************************************)
(* C2 as stated. get_item(index) raises the range error and returns no     *)
(* triple for every index outside [0, number_of_images), negative or too   *)
(* large.                                                                  *)
(***************************************************************************)
InCall == pc \in {"L89", "L91", "L96", "L102", "L107", "L112", "L114", "L117"}

C2_AsStated ==
    /\ InCall => 0 <= idx /\ idx < Len(ids)
    /\ ret.call = "getitem" /\ (ret.arg < 0 \/ ret.arg >= Len(ids)) =>
          ret.kind = "err" /\ ret.err = "IndexError"

(***************************************************************************)
(* What line 67 does with an index: it raises the range error and returns  *)
(* no triple for every index >= number_of_images and every index           *)
(* < -number_of_images; for -number_of_images <= index < 0 it raises no    *)
(* range error: it works on the image at position number_of_images + index *)
(* and echoes index.                                                       *)
(***************************************************************************)
ListIndexing ==
    /\ InCall => -Len(ids) <= idx /\ idx < Len(ids)
    /\ ret.call = "getitem" /\ (ret.arg < -Len(ids) \/ ret.arg >= Len(ids)) =>
          ret.kind = "err" /\ ret.err = "IndexError"
    /\ InCall /\ idx < 0 => img.id = ids[Len(ids) + idx + 1]
    /\ ret.call = "getitem" /\ -Len(ids) <= ret.arg /\ ret.arg < 0 =>
          /\ ret.err # "IndexError"
          /\ ret.kind = "ok" =>
                ret.idx = ret.arg /\ ret.img.id = ids[Len(ids) + ret.arg + 1]

\* a dataset of two images asked for index -1 returned its last image
NegativeIndexReturns ==
    /\ Len(ids) = 2
    /\ Returned
    /\ ret.arg = -1
    /\ ret.img.id = ids[2]

(***************************************************************************)
(* C6. For every index i in [0, number_of_images), filtered or not, the    *)
(* positional table maps i to the i-th entry of the id list, get_item(i)   *)
(* returns i as the third element of its triple, and get_img_info(i)       *)
(* returns the metadata record of the image whose pixels and annotations   *)
(* get_item(i) uses.                                                       *)
(***************************************************************************)
C6_IndexEchoed ==
    /\ pc # "new" =>
          /\ DOMAIN id_to_img_map = 0..(Len(ids) - 1)
          /\ \A i \in 0..(Len(ids) - 1) :
                i \in DOMAIN id_to_img_map /\ id_to_img_map[i] = ids[i + 1]
    /\ InCall /\ idx >= 0 =>
          /\ idx \in DOMAIN id_to_img_map
          /\ img.id = id_to_img_map[idx]
          /\ pc \in {"L89"} => anno = loadAnns(coco, id_to_img_map[idx])
    /\ Returned /\ ret.arg >= 0 =>
          /\ ret.idx = ret.arg
          /\ ret.arg \in DOMAIN id_to_img_map
          /\ ret.img.id = id_to_img_map[ret.arg]
    /\ ret.call = "get_img_info" /\ 0 <= ret.arg /\ ret.arg < Len(ids) =>
          /\ ret.kind = "ok"
          /\ ret.info = coco.imgs[ids[ret.arg + 1]]
          /\ ret.info.id = ids[ret.arg + 1]

\* filtering dropped the first image of two; get_img_info(0) returned the
\* record of the second
C6_Witness ==
    /\ remove_images_without_annotations
    /\ Len(coco.imgIds) = 2
    /\ Len(ids) = 1
    /\ ids[1] = 6
    /\ ret.call = "get_img_info" /\ ret.arg = 0 /\ ret.kind = "ok"
    /\ ret.info.id = 6

(***************************************************************************)
(* C7. After construction with remove_images_without_annotations the id    *)
(* list is the ascending list of the catalog's image ids whose whole       *)
(* annotation list, crowd annotations included, passes                     *)
(* has_valid_annotation; without the flag it is the ascending list of all  *)
(* the ids. It is ascending whatever the catalog's order, and the filter   *)
(* has run once per image at construction and never since.                 *)
(***************************************************************************)
C7_FilteredIds ==
    pc \notin {"new", "init_failed"} =>
        LET all == Range(coco.imgIds)
            passing == {d \in all : has_valid_annotation(coco.anns[d])}
        IN  /\ \A i, j \in DOMAIN ids : i < j => ids[i] < ids[j]
            /\ remove_images_without_annotations =>
                  Range(ids) = passing /\ filterEvals = Cardinality(all)
            /\ ~remove_images_without_annotations =>
                  Range(ids) = all /\ filterEvals = 0

\* the catalog lists two images in descending order; the one with a box
\* of width 1 is dropped, the one with only a crowd region is kept, and a
\* get_item has returned
C7_Witness ==
    /\ remove_images_without_annotations
    /\ Len(coco.imgIds) = 2
    /\ coco.imgIds[1] > coco.imgIds[2]
    /\ Len(ids) = 1
    /\ CrowdCount(coco.anns[ids[1]]) = 1
    /\ Returned

(***************************************************************************)
(* C5. For a non-empty enumeration of K distinct category ids the forward  *)
(* table gives the i-th id the label i, so the labels are exactly 1..K,    *)
(* and the inverse table takes the label of every enumerated id back to    *)
(* that id.                                                                *)
(***************************************************************************)
C5_DenseLabels ==
    pc \notin {"new", "init_failed"} /\ getCatIds(coco) # <<>> =>
        LET cats == getCatIds(coco)
            K == Len(cats)
            fwd == json_category_id_to_contiguous_id
            inv == contiguous_category_id_to_json_id
        IN  /\ DOMAIN fwd = Range(cats)
            /\ Range(fwd) = 1..K
            /\ \A i \in 1..K : fwd[cats[i]] = i
            /\ DOMAIN inv = 1..K
            /\ \A x \in Range(cats) : inv[fwd[x]] = x

\* two ids enumerated in descending order
C5_Witness ==
    /\ pc = "ready"
    /\ Len(getCatIds(coco)) = 2
    /\ getCatIds(coco)[1] > getCatIds(coco)[2]
    /\ json_category_id_to_contiguous_id[getCatIds(coco)[1]] = 1
    /\ contiguous_category_id_to_json_id[2] = getCatIds(coco)[2]

(***************************************************************************)
(* C3 as stated. For an annotation list whose annotations all carry        *)
(* keypoints, has_valid_annotation is true exactly when the number of      *)
(* keypoint triples of visibility > 0, summed over the list, is >= 10.     *)
(***************************************************************************)
AllKeypoints(raw) == \A i \in DOMAIN raw : raw[i].haskp

TotalVisible(raw) ==
    SumSeq([i \in DOMAIN raw |->
        Cardinality({j \in 1..(Len(raw[i].keypoints) \div 3) :
                        raw[i].keypoints[3 * j] > 0})])

\* construction has filtered the ids with has_valid_annotation
Filtered == pc \notin {"new", "init_failed"} /\ remove_images_without_annotations

C3_AsStated ==
    Filtered =>
        \A d \in Range(coco.imgIds) :
            AllKeypoints(coco.anns[d]) =>
                (d \in Range(ids) <=> TotalVisible(coco.anns[d]) >= 10)

(***************************************************************************)
(* C3 as amended. For an annotation list whose annotations all carry       *)
(* keypoints, has_valid_annotation is true exactly when some box of the    *)
(* list has width > 1 and height > 1 and the number of keypoint triples of *)
(* visibility > 0, summed over the list, is >= 10.                         *)
(***************************************************************************)
SomeBoxWithExtent(raw) == \E i \in DOMAIN raw : raw[i].bbox[3] > 1 /\ raw[i].bbox[4] > 1

C3_KeypointThreshold ==
    Filtered =>
        \A d \in Range(coco.imgIds) :
            AllKeypoints(coco.anns[d]) =>
                (d \in Range(ids) <=>
                    SomeBoxWithExtent(coco.anns[d]) /\ TotalVisible(coco.anns[d]) >= 10)

\* two annotations with keypoints, exactly 10 visible in all: the image stays
C3_Witness ==
    /\ Filtered
    /\ \E d \in Range(ids) :
          /\ Len(coco.anns[d]) = 2
          /\ AllKeypoints(coco.anns[d])
          /\ TotalVisible(coco.anns[d]) = 10

(***************************************************************************)
(* C4 as stated. has_valid_annotation is true for every list without       *)
(* keypoints that consists of one box of area width * height > 1.          *)
(***************************************************************************)
OneBoxNoKeypoints(raw) == Len(raw) = 1 /\ ~raw[1].haskp

C4_AsStated ==
    Filtered =>
        \A d \in Range(coco.imgIds) :
            OneBoxNoKeypoints(coco.anns[d])
            /\ coco.anns[d][1].bbox[3] * coco.anns[d][1].bbox[4] > 1
            => d \in Range(ids)

(***************************************************************************)
(* C4 as amended. has_valid_annotation is true for every list without      *)
(* keypoints that consists of one box of width > 1 and height > 1, and     *)
(* false when that one box has width <= 1 or height <= 1, whatever its     *)
(* area.                                                                   *)
(***************************************************************************)
C4_OneBoxValid ==
    Filtered =>
        \A d \in Range(coco.imgIds) :
            OneBoxNoKeypoints(coco.anns[d]) =>
                (d \in Range(ids) <=>
                    coco.anns[d][1].bbox[3] > 1 /\ coco.anns[d][1].bbox[4] > 1)

\* one box of width 2 and height 2, no keypoints: the image stays
C4_Witness ==
    /\ Filtered
    /\ \E d \in Range(ids) :
          /\ OneBoxNoKeypoints(coco.anns[d])
          /\ coco.anns[d][1].bbox[3] = 2
          /\ coco.anns[d][1].bbox[4] = 2

====
